---------------------------- MODULE Spec2Model ----------------------------
(***************************************************************************)
(* A model of pdf_extractor.py: the batch loop of main, process_pdf, the   *)
(* company classifier, the registration-number matchers, the SDI           *)
(* extractor with its tax reconciliation pass, the records the three       *)
(* extractors append, the row loop of the JLL extractor and _clean.        *)
(*                                                                         *)
(* Text is a sequence of one-character strings.  NL, TAB and NBSP stand    *)
(* for "\n", "\t" and "\xa0".                                              *)
(***************************************************************************)
EXTENDS Integers, Sequences, FiniteSets, TLC

VARIABLES
    numDocs,    \* main: len(pdf_files)
    idx,        \* main: how many files the for loop has taken so far
    pc,         \* where the run stands: loop, detect, extract, reconcile, aggregate, ...
    readable,   \* process_pdf: whether _read_pdf_pages returned the pages
    full_text,  \* process_pdf: full_text of the current document
    numPages,   \* process_pdf: len(pages)
    company,    \* process_pdf: what detect_company returned
    page,       \* extractor: the page the page loop stands at
    itemNo,     \* extractor: matches of item_pattern consumed on that page
    rows,       \* extractor: the local list rows
    summary,    \* _extract_sdi: tax_summary_match on the last page (None: no match)
    result,     \* main: the (company, rows) pair process_pdf returned
    all_data,   \* main: company -> aggregated rows
    returned,   \* history: every pair process_pdf has returned, in order
    ran,        \* history: the documents an extractor was called for
    snap,       \* history: all_data when the current document was taken
    faulted,    \* history: an exception was raised inside the current extractor
    built,      \* history: rows already built when it was raised
    rerun,      \* SpecSdi: the rows after a second reconciliation pass
    input,      \* SpecGstn: the first-page text handed to a matcher
    output,     \* SpecGstn: what the matcher returned
    call        \* SpecGstn: the matcher that was applied ("none" before)

pipeVars ==
    <<numDocs, idx, pc, readable, full_text, numPages, company, page, itemNo, rows,
      summary, result, all_data, returned, ran, snap, faulted, built, rerun>>

matcherVars == <<input, output, call>>

vars == <<pipeVars, matcherVars>>

-----------------------------------------------------------------------------
(* Characters *)

NL == "<nl>"
TAB == "<tab>"
NBSP == "<nbsp>"

UpperLetters ==
    <<"A","B","C","D","E","F","G","H","I","J","K","L","M",
      "N","O","P","Q","R","S","T","U","V","W","X","Y","Z">>

LowerLetters ==
    <<"a","b","c","d","e","f","g","h","i","j","k","l","m",
      "n","o","p","q","r","s","t","u","v","w","x","y","z">>

Digits == {"0","1","2","3","4","5","6","7","8","9"}

IsUpper(c) == \E i \in 1..26 : UpperLetters[i] = c
IsLower(c) == \E i \in 1..26 : LowerLetters[i] = c
IsDigit(c) == c \in Digits

\* str.lower() on one character, as re.IGNORECASE compares.
Lower(c) ==
    IF IsUpper(c)
    THEN LowerLetters[CHOOSE i \in 1..26 : UpperLetters[i] = c]
    ELSE c

\* \s of a str pattern: Unicode whitespace, the non-breaking space included.
IsSpace(c) == c \in {" ", NL, TAB, NBSP}

None == "None"

-----------------------------------------------------------------------------
(* A regular-expression engine over positions.  A position p in            *)
(* 1..Len(text)+1 is the index of the next character to read; a matcher    *)
(* maps the set of positions a match may have reached to the set it may    *)
(* reach next.                                                             *)

\* The literal `word` (lower case) read at p, ignoring case.
LitAt(text, p, word) ==
    /\ p + Len(word) - 1 <= Len(text)
    /\ \A k \in 1..Len(word) : Lower(text[p + k - 1]) = word[k]

Lit(text, P, word) == {p + Len(word) : p \in {q \in P : LitAt(text, q, word)}}

\* \s* : any number of whitespace characters from a position of P.
Spaces0(text, P) ==
    {q \in 1..(Len(text) + 1) :
        \E p \in P : p <= q /\ \A k \in p..(q - 1) : IsSpace(text[k])}

\* \s+ : at least one.
Spaces1(text, P) ==
    {q \in Spaces0(text, P) : \E p \in P : p < q /\ \A k \in p..(q - 1) : IsSpace(text[k])}

RECURSIVE WordsFrom(_, _, _)
\* w1\s+w2\s+...\s+wn read from the positions P.
WordsFrom(text, P, words) ==
    IF words = <<>> THEN P
    ELSE LET first == Lit(text, P, Head(words))
         IN  IF Len(words) = 1 THEN first
             ELSE WordsFrom(text, Spaces1(text, first), Tail(words))

\* pattern.search(text) for a pattern w1\s+...\s+wn: a match from any start.
SearchWords(text, words) == WordsFrom(text, 1..(Len(text) + 1), words) # {}

-----------------------------------------------------------------------------
(* Company detection *)

Companies == <<"Mogli Labs", "SDI", "JLL">>

\* COMPANY_PATTERNS[company].search(full_text)
PatternMatches(c, text) ==
    CASE c = "Mogli Labs" ->
            SearchWords(text, << <<"m","o","g","l","i">>, <<"l","a","b","s">> >>)
      [] c = "SDI" ->
            SearchWords(text, << <<"s","d","i">>,
                                 <<"b","u","s","i","n","e","s","s">>,
                                 <<"s","e","r","v","i","c","e","s">> >>)
      [] c = "JLL" ->
            \/ SearchWords(text, << <<"j","o","n","e","s">>, <<"l","a","n","g">>,
                                    <<"l","a","s","a","l","l","e">> >>)
            \/ SearchWords(text, << <<"j","l","l">>, <<"i","n","v","o","i","c","e">> >>)

\* The order in which the dict COMPANY_PATTERNS is iterated: insertion order.
PatternOrderSwapped == <<"JLL", "SDI", "Mogli Labs">>

PatternOrder == Companies

\* What detect_company returns when the loop ends without a match.
NoMatchDefaultsToJll == "JLL"

NoMatchResult == None

RECURSIVE DetectFrom(_, _)
DetectFrom(order, text) ==
    IF order = <<>> THEN NoMatchResult
    ELSE IF PatternMatches(Head(order), text) THEN Head(order)
    ELSE DetectFrom(Tail(order), text)

detect_company(t) == DetectFrom(PatternOrder, t)

-----------------------------------------------------------------------------
(* Texts *)

MaxFragments == 2

Fragments ==
    { <<"M","o","g","l","i"," ","L","a","b","s">>,
      <<"M","O","G","L","I",NL,TAB,"L","A","B","S"," ">>,
      <<"M","o","g","l","i","L","a","b","s">>,
      <<"S","D","I"," ","B","u","s","i","n","e","s","s"," ","S","e","r","v","i","c","e","s">>,
      <<"s","d","i",NBSP,"b","u","s","i","n","e","s","s"," ">>,
      <<"S","e","r","v","i","c","e","s">>,
      <<"J","o","n","e","s"," ","L","a","n","g"," ","L","a","S","a","l","l","e">>,
      <<"J","L","L"," ">>,
      <<"I","n","v","o","i","c","e">>,
      <<"T","a","x"," ">> }

RECURSIVE Flatten(_)
Flatten(ss) == IF ss = <<>> THEN <<>> ELSE Head(ss) \o Flatten(Tail(ss))

SeqsUpTo(S, n) == UNION {[1..k -> S] : k \in 0..n}

ClassifyTexts == {Flatten(fs) : fs \in SeqsUpTo(Fragments, MaxFragments)}

-----------------------------------------------------------------------------
(* Numbers.  Money is counted in hundredths of a rupee and a percentage p  *)
(* stands for the float p / 100.0; the inputs are chosen so that every     *)
(* product is exact, and float rounding is not modelled.                   *)

DigitValue(c) == CHOOSE n \in 0..9 : <<"0","1","2","3","4","5","6","7","8","9">>[n + 1] = c

\* float(s) succeeds on a token of [\d.]+ : at most one point, at least one digit.
FloatParses(tok) ==
    /\ \A k \in 1..Len(tok) : IsDigit(tok[k]) \/ tok[k] = "."
    /\ Cardinality({k \in 1..Len(tok) : tok[k] = "."}) <= 1
    /\ \E k \in 1..Len(tok) : IsDigit(tok[k])

RECURSIVE DigitsValue(_)
DigitsValue(ds) ==
    IF ds = <<>> THEN 0
    ELSE 10 * DigitsValue(SubSeq(ds, 1, Len(ds) - 1)) + DigitValue(ds[Len(ds)])

\* float(s) of a token whose fraction, if any, is zero: its integer part.
FloatValue(tok) ==
    LET points == {k \in 1..Len(tok) : tok[k] = "."}
        stop == IF points = {} THEN Len(tok) ELSE (CHOOSE k \in points : TRUE) - 1
    IN  DigitsValue(SubSeq(tok, 1, stop))

\* x * (p / 100.0)
TimesPctOfTen(x, p) == (x * p) \div 10

TimesPct(x, p) == (x * p) \div 100

-----------------------------------------------------------------------------
(* Line items.  An item is one match of an extractor's item pattern: the   *)
(* text of its groups.                                                     *)

MaxDocs == 2
MaxPages == 2
MaxItems == 2

DefaultPct == 9

GoodQty == <<"2">>
OtherQty == <<"4",".","0">>
BadQty == <<"1",".","2",".","3">>

Item(qty, rate) ==
    [qty |-> qty, rate |-> rate, taxable |-> rate * 2,
     cgstPct |-> 9, cgstAmt |-> TimesPct(rate * 2, 9),
     sgstPct |-> 9, sgstAmt |-> TimesPct(rate * 2, 9),
     amount |-> rate * 2 + 2 * TimesPct(rate * 2, 9)]

\* The items the batch specification draws from.
BatchItems(c) ==
    IF c = "JLL" THEN {Item(GoodQty, 10000)}
    ELSE {Item(GoodQty, 10000), Item(BadQty, 10000)}

\* The items the single-document SDI specification draws from.
SdiItems(c) == {Item(GoodQty, 10000), Item(OtherQty, 25000), Item(BadQty, 10000)}

\* tax_summary_match: None, or the two percentages the summary states.
NoSummary == [found |-> FALSE, cgst |-> 0, sgst |-> 0]

Summary(c, sg) == [found |-> TRUE, cgst |-> c, sgst |-> sg]

BatchSummaries == {NoSummary, Summary(6, 14)}

SdiSummaries == {NoSummary, Summary(6, 14), Summary(9, 9), Summary(14, 0)}

\* The statements of an extractor's row loop that raise: float() on a
\* quantity or unit price the pattern [\d.]+ let through.
Raises(c, item) ==
    CASE c = "Mogli Labs" -> ~FloatParses(item.qty)
      [] c = "SDI" -> ~FloatParses(item.qty)
      [] c = "JLL" -> FALSE

\* The row an extractor appends for one match.
BuildRow(c, item, d, n) ==
    CASE c = "SDI" ->
            LET taxable_total == item.rate * FloatValue(item.qty)
                cgst_amt == TimesPct(taxable_total, DefaultPct)
                sgst_amt == TimesPct(taxable_total, DefaultPct)
            IN  [doc |-> d, seq |-> n,
                 qty |-> FloatValue(item.qty), rate |-> item.rate,
                 taxable |-> taxable_total,
                 igstPct |-> 0, igstAmt |-> 0,
                 cgstPct |-> DefaultPct, cgstAmt |-> cgst_amt,
                 sgstPct |-> DefaultPct, sgstAmt |-> sgst_amt,
                 amount |-> taxable_total + 0 + cgst_amt + sgst_amt]
      [] c = "Mogli Labs" ->
            [doc |-> d, seq |-> n,
             qty |-> FloatValue(item.qty), rate |-> item.rate,
             taxable |-> item.taxable,
             igstPct |-> 0, igstAmt |-> 0,
             cgstPct |-> item.cgstPct, cgstAmt |-> item.cgstAmt,
             sgstPct |-> item.sgstPct, sgstAmt |-> item.sgstAmt,
             amount |-> item.amount]
      [] c = "JLL" ->
            LET cgst_amt == TimesPct(item.taxable, item.cgstPct)
                sgst_amt == TimesPct(item.taxable, item.sgstPct)
            IN  [doc |-> d, seq |-> n,
                 qty |-> 0, rate |-> 0,
                 taxable |-> item.taxable,
                 igstPct |-> 0, igstAmt |-> 0,
                 cgstPct |-> item.cgstPct, cgstAmt |-> cgst_amt,
                 sgstPct |-> item.sgstPct, sgstAmt |-> sgst_amt,
                 amount |-> item.taxable + 0 + cgst_amt + sgst_amt]

-----------------------------------------------------------------------------
(* Tax reconciliation (_extract_sdi, second pass) *)

\* One iteration of `for row in rows` under a matched summary.
ReconcileRowFromAmount(row, s) ==
    LET cgst == TimesPct(row.amount, s.cgst)
        sgst == TimesPct(row.amount, s.sgst)
    IN  [row EXCEPT !.cgstPct = s.cgst, !.sgstPct = s.sgst,
                    !.cgstAmt = cgst, !.sgstAmt = sgst,
                    !.amount = row.amount + row.igstAmt + cgst + sgst]

ReconcileRowRebuilds(row, s) ==
    LET cgst == TimesPct(row.taxable, s.cgst)
        sgst == TimesPct(row.taxable, s.sgst)
    IN  [row EXCEPT !.cgstPct = s.cgst, !.sgstPct = s.sgst,
                    !.cgstAmt = cgst, !.sgstAmt = sgst,
                    !.amount = row.taxable + row.igstAmt + cgst + sgst,
                    !.qty = 0, !.rate = row.taxable]

ReconcileRow(row, s) ==
    LET cgst == TimesPct(row.taxable, s.cgst)
        sgst == TimesPct(row.taxable, s.sgst)
    IN  [row EXCEPT !.cgstPct = s.cgst, !.sgstPct = s.sgst,
                    !.cgstAmt = cgst, !.sgstAmt = sgst,
                    !.amount = row.taxable + row.igstAmt + cgst + sgst]

\* The rows the loop visits.
RowsVisitedLastOnly(rs) == {Len(rs)}

RowsVisited(rs) == 1..Len(rs)

\* What the pass does when tax_summary_match is None.
WithoutSummaryZeroRates(rs) ==
    [k \in 1..Len(rs) |-> ReconcileRow(rs[k], Summary(0, 0))]

WithoutSummary(rs) == rs

\* The whole pass: `if tax_summary_match: for row in rows: ...`.
ReconcileRows(rs, s) ==
    IF ~s.found THEN WithoutSummary(rs)
    ELSE [k \in 1..Len(rs) |->
            IF k \in RowsVisited(rs) THEN ReconcileRow(rs[k], s) ELSE rs[k]]

-----------------------------------------------------------------------------
(* process_pdf and main *)

NoResult == [company |-> None, rows |-> <<>>]

\* The texts the batch specification draws a document's full text from.
BatchTexts ==
    { <<"M","o","g","l","i"," ","L","a","b","s">>,
      <<"S","D","I"," ","B","u","s","i","n","e","s","s"," ","S","e","r","v","i","c","e","s">>,
      <<"J","L","L"," ","I","n","v","o","i","c","e">>,
      <<"T","a","x"," ","I","n","v","o","i","c","e">> }

SdiText ==
    <<"S","D","I"," ","B","u","s","i","n","e","s","s"," ","S","e","r","v","i","c","e","s">>

\* detect_company tabulated over the texts the specifications draw from.
Classified == [t \in ClassifyTexts \cup BatchTexts \cup {SdiText} |-> detect_company(t)]

\* extractors.get(company)
Extractor(c) == IF \E k \in 1..Len(Companies) : Companies[k] = c THEN c ELSE None

\* rows = [] at the head of an extractor.
FreshRowsKeepsPrevious(prev) == prev

FreshRows(prev) == <<>>

\* The rows process_pdf returns when the extractor raised.
RowsOnFaultPartial(partial) == partial

RowsOnFault(partial) == <<>>

\* Where process_pdf goes when the extractor raised: `except Exception`.
AfterFaultUncaught == "aborted"

AfterFault == "aggregate"

\* all_data.setdefault(company, []).extend(rows)
ExtendPrepends(old, new) == new \o old

Extend(old, new) == old \o new

\* process_pdf returns: the page list and the extractor's loop counters are
\* gone with the frame.
FrameLeft == numPages' = 0 /\ page' = 0 /\ itemNo' = 0

\* _read_pdf_pages raises: process_pdf returns (None, []).
ReadFails ==
    /\ pc = "loop"
    /\ UNCHANGED matcherVars
    /\ idx < numDocs
    /\ idx' = idx + 1
    /\ snap' = all_data
    /\ readable' = FALSE
    /\ full_text' = <<>>
    /\ numPages' = 0
    /\ company' = None
    /\ result' = NoResult
    /\ pc' = "aggregate"
    /\ faulted' = FALSE
    /\ built' = 0
    /\ page' = 0
    /\ itemNo' = 0
    /\ UNCHANGED <<numDocs, rows, summary, all_data, returned, ran, rerun>>

\* _read_pdf_pages returns the pages; full_text is joined.
ReadPages ==
    /\ pc = "loop"
    /\ UNCHANGED matcherVars
    /\ idx < numDocs
    /\ idx' = idx + 1
    /\ snap' = all_data
    /\ readable' = TRUE
    /\ \E t \in BatchTexts, n \in 1..MaxPages : full_text' = t /\ numPages' = n
    /\ company' = None
    /\ pc' = "detect"
    /\ faulted' = FALSE
    /\ built' = 0
    /\ UNCHANGED <<numDocs, page, itemNo, rows, summary, result, all_data, returned, ran,
                   rerun>>

\* company = detect_company(full_text); the unrecognized document returns
\* (None, []), any other enters its extractor.
Detect ==
    /\ pc = "detect"
    /\ UNCHANGED matcherVars
    /\ LET c == Classified[full_text]
       IN  /\ company' = c
           /\ IF c = None \/ Extractor(c) = None
              THEN /\ result' = NoResult
                   /\ pc' = "aggregate"
                   /\ FrameLeft
                   /\ UNCHANGED <<rows, ran>>
              ELSE /\ rows' = FreshRows(rows)
                   /\ page' = 1
                   /\ itemNo' = 0
                   /\ ran' = ran \cup {idx}
                   /\ pc' = "extract"
                   /\ UNCHANGED <<result, numPages>>
    /\ UNCHANGED <<numDocs, idx, readable, full_text, summary, all_data,
                   returned, snap, faulted, built, rerun>>

\* The pages an extractor takes line items from: _extract_jll leaves the last
\* page of a document of several pages to the summary table.
ItemPage(c, pg, n) == IF c = "JLL" /\ n > 1 THEN pg < n ELSE pg <= n

\* One match of the item pattern on the current page: a row is appended, or
\* float() raises and process_pdf's handler returns (company, []).
ExtractRowOf(items) ==
    /\ pc = "extract"
    /\ UNCHANGED matcherVars
    /\ page <= numPages
    /\ ItemPage(company, page, numPages)
    /\ itemNo < MaxItems
    /\ \E item \in items :
         IF Raises(company, item)
         THEN /\ faulted' = TRUE
              /\ built' = Len(rows)
              /\ result' = [company |-> company, rows |-> RowsOnFault(rows)]
              /\ rows' = <<>>
              /\ pc' = AfterFault
              /\ FrameLeft
         ELSE /\ rows' = Append(rows, BuildRow(company, item, idx, Len(rows) + 1))
              /\ itemNo' = itemNo + 1
              /\ UNCHANGED <<faulted, built, result, pc, numPages, page>>
    /\ UNCHANGED <<numDocs, idx, readable, full_text, company, summary,
                   all_data, returned, ran, snap, rerun>>

ExtractRow == ExtractRowOf(BatchItems(company))

\* A page without the table header: `continue`.
SkipPage ==
    /\ pc = "extract"
    /\ UNCHANGED matcherVars
    /\ page <= numPages
    /\ itemNo = 0
    /\ page' = page + 1
    /\ UNCHANGED <<numDocs, idx, pc, readable, full_text, numPages, company, itemNo, rows,
                   summary, result, all_data, returned, ran, snap, faulted, built, rerun>>

\* finditer is exhausted on the current page.
EndPage ==
    /\ pc = "extract"
    /\ UNCHANGED matcherVars
    /\ page <= numPages
    /\ itemNo > 0
    /\ page' = page + 1
    /\ itemNo' = 0
    /\ UNCHANGED <<numDocs, idx, pc, readable, full_text, numPages, company, rows,
                   summary, result, all_data, returned, ran, snap, faulted, built, rerun>>

\* The page loop is over: _extract_sdi goes on to its summary, the other
\* extractors return rows.
EndExtract ==
    /\ pc = "extract"
    /\ UNCHANGED matcherVars
    /\ page > numPages
    /\ IF company = "SDI"
       THEN pc' = "reconcile" /\ UNCHANGED <<result, numPages, page, itemNo>>
       ELSE pc' = "aggregate" /\ result' = [company |-> company, rows |-> rows] /\ FrameLeft
    /\ UNCHANGED <<numDocs, idx, readable, full_text, company, rows,
                   summary, all_data, returned, ran, snap, faulted, built, rerun>>

\* _extract_sdi: the summary is searched on the last page, the rows are
\* rewritten when it is found, and rows is returned.
ReconcileOf(summaries) ==
    /\ pc = "reconcile"
    /\ UNCHANGED matcherVars
    /\ \E s \in summaries :
         /\ summary' = s
         /\ rows' = ReconcileRows(rows, s)
         /\ result' = [company |-> company, rows |-> ReconcileRows(rows, s)]
    /\ pc' = "aggregate"
    /\ FrameLeft
    /\ UNCHANGED <<numDocs, idx, readable, full_text, company,
                   all_data, returned, ran, snap, faulted, built, rerun>>

Reconcile == ReconcileOf(BatchSummaries)

\* main: `if company and rows: all_data.setdefault(company, []).extend(rows)`.
Aggregate ==
    /\ pc = "aggregate"
    /\ UNCHANGED matcherVars
    /\ all_data' =
         IF result.company # None /\ result.rows # <<>>
         THEN [all_data EXCEPT ![result.company] = Extend(@, result.rows)]
         ELSE all_data
    /\ returned' = Append(returned, result)
    /\ pc' = "loop"
    /\ UNCHANGED <<numDocs, idx, readable, full_text, numPages, company, page, itemNo, rows,
                   summary, result, ran, snap, faulted, built, rerun>>

\* The loop is over: _write_excel(all_data, ...).
WriteExcel ==
    /\ pc = "loop"
    /\ UNCHANGED matcherVars
    /\ idx = numDocs
    /\ pc' = "written"
    /\ UNCHANGED <<numDocs, idx, readable, full_text, numPages, company, page, itemNo, rows,
                   summary, result, all_data, returned, ran, snap, faulted, built, rerun>>

CompanySet == {Companies[k] : k \in 1..Len(Companies)}

\* No registration-number matcher is under test.
MatchersIdle == input = <<>> /\ output = <<>> /\ call = "none"

InitWith(n, at, t, np) ==
    /\ numDocs = n
    /\ idx = 0
    /\ pc = at
    /\ readable = (at = "detect")
    /\ full_text = t
    /\ numPages = np
    /\ company = None
    /\ page = 0
    /\ itemNo = 0
    /\ rows = <<>>
    /\ summary = NoSummary
    /\ result = NoResult
    /\ all_data = [c \in CompanySet |-> <<>>]
    /\ returned = <<>>
    /\ ran = {}
    /\ snap = [c \in CompanySet |-> <<>>]
    /\ faulted = FALSE
    /\ built = 0
    /\ rerun = <<>>

\* main before its loop, with at least one file in the input directory.
Init == (\E n \in 1..MaxDocs : InitWith(n, "loop", <<>>, 0)) /\ MatchersIdle

Next ==
    \/ ReadFails
    \/ ReadPages
    \/ Detect
    \/ ExtractRow
    \/ SkipPage
    \/ EndPage
    \/ EndExtract
    \/ Reconcile
    \/ Aggregate
    \/ WriteExcel

Spec == Init /\ [][Next]_vars

\* The program is one thread that always takes its next step.
FairSpec == Spec /\ WF_vars(Next)

-----------------------------------------------------------------------------
(* SpecSdi: process_pdf on one SDI document, from its classification to    *)
(* the rows it returns, and the reconciliation pass applied once more to   *)
(* those rows.                                                             *)

InitSdi == (\E np \in 1..MaxPages : InitWith(1, "detect", SdiText, np)) /\ MatchersIdle

SdiExtractRow == ExtractRowOf(SdiItems(company))

SdiReconcile == ReconcileOf(SdiSummaries)

\* The pass of _extract_sdi run again on the rows it returned.
ReconcileAgain ==
    /\ pc = "aggregate"
    /\ UNCHANGED matcherVars
    /\ ~faulted
    /\ rerun' = ReconcileRows(result.rows, summary)
    /\ pc' = "rerun"
    /\ UNCHANGED <<numDocs, idx, readable, full_text, numPages, company, page, itemNo,
                   rows, summary, result, all_data, returned, ran, snap, faulted, built>>

NextSdi ==
    \/ Detect
    \/ SdiExtractRow
    \/ SkipPage
    \/ EndPage
    \/ EndExtract
    \/ SdiReconcile
    \/ ReconcileAgain

SpecSdi == InitSdi /\ [][NextSdi]_vars

-----------------------------------------------------------------------------
(* SpecClassify: process_pdf's classification step on a document text *)

InitClassify == (\E t \in ClassifyTexts : InitWith(1, "detect", t, 1)) /\ MatchersIdle

NextClassify == Detect

SpecClassify == InitClassify /\ [][NextClassify]_vars

-----------------------------------------------------------------------------
(* Registration numbers (GSTN) *)

Min(S) == CHOOSE x \in S : \A y \in S : x <= y

\* [0-9]{2}[A-Z]{5}[0-9]{4}[A-Z][0-9A-Z][A-Z][0-9A-Z]: D a digit, U a letter
\* of A-Z, A either.
ShapeClasses == <<"D","D","U","U","U","U","U","D","D","D","D","U","A","U","A">>

\* One character against one class of the shape; under re.IGNORECASE the
\* class A-Z takes the lower-case letters too.
ClassMatches(cls, ch, ignorecase) ==
    LET letter == IsUpper(ch) \/ (ignorecase /\ IsLower(ch))
    IN  CASE cls = "D" -> IsDigit(ch)
          [] cls = "U" -> letter
          [] cls = "A" -> IsDigit(ch) \/ letter

ShapeAt(text, p, ignorecase) ==
    /\ p + Len(ShapeClasses) - 1 <= Len(text)
    /\ \A k \in 1..Len(ShapeClasses) : ClassMatches(ShapeClasses[k], text[p + k - 1], ignorecase)

\* The labels _extract_gstn tries when it is given none, lower-cased.
DefaultLabels ==
    << <<"g","s","t","i","n","/","u","i","n">>,
       <<"g","s","t","i","n"," ","n","o">>,
       <<"g","s","t","n"," ","n","o">>,
       <<"g","s","t","i","n">>,
       <<"g","s","t"," ","n","o">>,
       <<"g","s","t","n","o">> >>

\* re.escape(label) + \s*:?\s* read at i: the positions the group may start at.
AfterLabel(text, i, label) ==
    LET afterLabel == Lit(text, {i}, label)
        beforeColon == Spaces0(text, afterLabel)
        afterColon == beforeColon \cup Lit(text, beforeColon, <<":">>)
    IN  Spaces0(text, afterColon)

\* The starts of group 1 for a match of the label's pattern at i.
GroupStarts(text, i, label) == {p \in AfterLabel(text, i, label) : ShapeAt(text, p, TRUE)}

\* pattern.search(text) for one label: group 1 of the leftmost match, or <<>>.
SearchLabel(text, label) ==
    LET hits == {i \in 1..Len(text) : GroupStarts(text, i, label) # {}}
    IN  IF hits = {} THEN <<>>
        ELSE LET p == Min(GroupStarts(text, Min(hits), label))
             IN  SubSeq(text, p, p + Len(ShapeClasses) - 1)

RECURSIVE ExtractGstnFrom(_, _)
ExtractGstnFrom(text, labels) ==
    IF labels = <<>> THEN <<>>
    ELSE IF SearchLabel(text, Head(labels)) # <<>> THEN SearchLabel(text, Head(labels))
    ELSE ExtractGstnFrom(text, Tail(labels))

\* _extract_gstn(text) with the default labels.
_extract_gstn(text) == ExtractGstnFrom(text, DefaultLabels)

\* \w
IsWordChar(ch) == IsDigit(ch) \/ IsUpper(ch) \/ IsLower(ch) \/ ch = "_"

\* \b between text[p - 1] and text[p].
WordBoundary(text, p) ==
    (p > 1 /\ IsWordChar(text[p - 1])) # (p <= Len(text) /\ IsWordChar(text[p]))

\* _GSTN_RE matches at p: the shape, case kept, between two word boundaries.
GstnAt(text, p) ==
    /\ WordBoundary(text, p)
    /\ ShapeAt(text, p, FALSE)
    /\ WordBoundary(text, p + Len(ShapeClasses))

RECURSIVE FindAllFrom(_, _, _)
FindAllFrom(text, p, seen) ==
    IF p > Len(text) THEN seen
    ELSE IF GstnAt(text, p)
         THEN LET g == SubSeq(text, p, p + Len(ShapeClasses) - 1)
              IN  FindAllFrom(text, p + Len(ShapeClasses),
                              IF \E k \in 1..Len(seen) : seen[k] = g THEN seen
                              ELSE Append(seen, g))
         ELSE FindAllFrom(text, p + 1, seen)

_find_all_unique_gstns(text) == FindAllFrom(text, 1, <<>>)

\* The end of (?:Billed\s+To|Buyer) read at i.  The \s*\)? after it can match
\* nothing and .*? (DOTALL) follows, so it moves no match.
BuyerPrefixEnds(text, i) ==
    WordsFrom(text, {i}, << <<"b","i","l","l","e","d">>, <<"t","o">> >>)
        \cup Lit(text, {i}, <<"b","u","y","e","r">>)

\* GSTIN?\s*(?:No\.?)?\s*:\s* read at j: the positions (\S+) may start at.
GstinColonEnds(text, j) ==
    LET gsti == Lit(text, {j}, <<"g","s","t","i">>)
        gstin == gsti \cup Lit(text, gsti, <<"n">>)
        sp1 == Spaces0(text, gstin)
        no == Lit(text, sp1, <<"n","o">>)
        noDot == sp1 \cup no \cup Lit(text, no, <<".">>)
        sp2 == Spaces0(text, noDot)
        colon == Lit(text, sp2, <<":">>)
    IN  {p \in Spaces0(text, colon) : p <= Len(text) /\ ~IsSpace(text[p])}

\* \S+ read at p, greedy.
NonSpaceRun(text, p) ==
    LET stops == {q \in p..Len(text) : IsSpace(text[q])}
    IN  SubSeq(text, p, IF stops = {} THEN Len(text) ELSE Min(stops) - 1)

\* Group 1 of the "Billed To" search of _extract_mogli, or <<>> without a
\* match: the leftmost prefix, then the nearest label after it (.*? is lazy).
BuyerCandidate(text) ==
    LET tails(i) ==
            {j \in 1..Len(text) :
                /\ \E e \in BuyerPrefixEnds(text, i) : e <= j
                /\ GstinColonEnds(text, j) # {}}
        hits == {i \in 1..Len(text) : tails(i) # {}}
    IN  IF hits = {} THEN <<>>
        ELSE NonSpaceRun(text, Min(GstinColonEnds(text, Min(tails(Min(hits))))))

\* buyer_gstn of _extract_mogli: the candidate when _GSTN_RE.match takes it,
\* else the second unique number of the page.
MogliBuyerGstn(text) ==
    LET candidate == BuyerCandidate(text)
        unique == _find_all_unique_gstns(text)
    IN  IF candidate # <<>> /\ GstnAt(candidate, 1) THEN candidate
        ELSE IF Len(unique) >= 2 THEN unique[2]
        ELSE <<>>

\* buyer_gstn of _extract_sdi and _extract_jll: the first unique number of the
\* page other than the vendor's, or the second unique number when no vendor
\* number was found.
OtherBuyerGstn(text) ==
    LET vendor_gstn == _extract_gstn(text)
        unique_gstns == _find_all_unique_gstns(text)
        others == {k \in 1..Len(unique_gstns) : unique_gstns[k] # vendor_gstn}
    IN  IF vendor_gstn # <<>> /\ Len(unique_gstns) >= 2
        THEN (IF others = {} THEN <<>> ELSE unique_gstns[Min(others)])
        ELSE IF Len(unique_gstns) >= 2 THEN unique_gstns[2]
        ELSE <<>>

-----------------------------------------------------------------------------
(* SpecGstn: the three ways a registration number is produced, each        *)
(* applied to a first-page text.                                           *)

MaxExtra == 1

BaseGstn == <<"2","9","A","B","C","D","E","1","2","3","4","F","1","Z","5">>

OtherGstn == <<"0","7","A","A","A","A","A","0","0","0","0","A","1","Z","5">>

\* The base number with one character replaced, with up to MaxExtra
\* characters appended, or with up to MaxExtra characters cut.
GstnTokens ==
    {[BaseGstn EXCEPT ![k] = r] : k \in 1..Len(BaseGstn), r \in {"7", "Q", "q", "-"}}
        \cup {BaseGstn \o e : e \in SeqsUpTo({"8", "X", ","}, MaxExtra)}
        \cup {SubSeq(BaseGstn, 1, Len(BaseGstn) - d) : d \in 1..MaxExtra}

GstnContexts ==
    { <<"G","S","T","I","N",":"," ">>,
      <<"g","s","t","n","o">>,
      <<"B","u","y","e","r"," ","G","S","T","I","N"," ","N","o"," ",":"," ">>,
      <<"G","S","T","I","N",":",NBSP>> \o OtherGstn \o
          <<NL,"B","i","l","l","e","d"," ","T","o",NL>>,
      OtherGstn \o <<NL,"G","S","T","I","N"," ">> }

GstnTrails == { <<>>, <<" ","K","A">> }

GstnPages == {c \o t \o e : c \in GstnContexts, t \in GstnTokens, e \in GstnTrails}

InitGstn ==
    /\ InitWith(0, "idle", <<>>, 0)
    /\ input \in GstnPages
    /\ output = <<>>
    /\ call = "none"

CallExtractGstn ==
    /\ call = "none"
    /\ call' = "_extract_gstn"
    /\ output' = _extract_gstn(input)
    /\ UNCHANGED <<input, pipeVars>>

CallMogliBuyer ==
    /\ call = "none"
    /\ call' = "mogli_buyer"
    /\ output' = MogliBuyerGstn(input)
    /\ UNCHANGED <<input, pipeVars>>

CallFindAll ==
    /\ call = "none"
    /\ call' = "_find_all_unique_gstns"
    /\ output' = _find_all_unique_gstns(input)
    /\ UNCHANGED <<input, pipeVars>>

\* The two registration numbers _extract_mogli puts on its records.
CallMogliHeader ==
    /\ call = "none"
    /\ call' = "_extract_mogli"
    /\ output' = [vendor_gstn |-> _extract_gstn(input), buyer_gstn |-> MogliBuyerGstn(input)]
    /\ UNCHANGED <<input, pipeVars>>

\* The two registration numbers _extract_sdi puts on its records.
CallSdiHeader ==
    /\ call = "none"
    /\ call' = "_extract_sdi"
    /\ output' = [vendor_gstn |-> _extract_gstn(input), buyer_gstn |-> OtherBuyerGstn(input)]
    /\ UNCHANGED <<input, pipeVars>>

\* The two registration numbers _extract_jll puts on its records.
CallJllHeader ==
    /\ call = "none"
    /\ call' = "_extract_jll"
    /\ output' = [vendor_gstn |-> _extract_gstn(input), buyer_gstn |-> OtherBuyerGstn(input)]
    /\ UNCHANGED <<input, pipeVars>>

NextGstn ==
    \/ CallExtractGstn
    \/ CallMogliBuyer
    \/ CallFindAll
    \/ CallMogliHeader
    \/ CallSdiHeader
    \/ CallJllHeader

SpecGstn == InitGstn /\ [][NextGstn]_vars

-----------------------------------------------------------------------------
(* Line-item records: the dict each extractor appends, key by key *)

MOGLI_COLUMNS ==
    << "Invoice Type",
       "Vendor Name (Billed From)",
       "Vendor GSTN (Billed From GSTN)",
       "Buyer Name (Billed To)",
       "Buyer GSTIN (Billed To GSTN)",
       "Place of Suply",
       "Invoice No",
       "Invoice Date",
       "Description of Goods",
       "HSN",
       "Qty",
       "Unit",
       "Unit Price",
       "Taxable Total",
       "IGST    %",
       "IGST Amount",
       "CGST %",
       "CGST Amount",
       "SGST %",
       "SGST Amount",
       "Amount" >>

SDI_COLUMNS ==
    << "Invoice Type",
       "Vendor Name (Billed From)",
       "Vendor GSTN (Billed From GSTN)",
       "Buyer Name (Billed To)",
       "Buyer GSTIN (Billed To GSTN)",
       "Invoice No",
       "Invoice Date",
       "Description of Goods",
       "HSN/SAC",
       "Quantity",
       "Rate",
       "Per",
       "Taxable Total",
       "IGST    %",
       "IGST Amount",
       "CGST %",
       "CGST Amount",
       "SGST %",
       "SGST Amount",
       "Amount" >>

JLL_COLUMNS ==
    << "Invoice Type",
       "Vendor Name (Billed From)",
       "Vendor GSTN (Billed From GSTN)",
       "Buyer Name (Billed To)",
       "Buyer GSTIN (Billed To GSTN)",
       "Place of Suply",
       "Invoice No",
       "Invoice Date",
       "Description",
       "HSN",
       "Qty",
       "Taxable Value",
       "IGST    %",
       "IGST Amount",
       "CGST %",
       "CGST Amount",
       "SGST %",
       "SGST Amount",
       "Amount",
       "Site Name",
       "Service Type" >>

\* A header variable: "" before its search, the group when the search matched.
HeaderValueOrNone(m) == m

HeaderValue(m) == IF m = None THEN "" ELSE m

\* The header variables of an extractor after its searches; h gives for each
\* one the text its search captured, or None.
Header(h) == [f \in DOMAIN h |-> HeaderValue(h[f])]

\* The dict a literal of key-value pairs builds.
DictOf(pairs) ==
    [k \in {pairs[i][1] : i \in 1..Len(pairs)} |->
        pairs[CHOOSE i \in 1..Len(pairs) :
                 pairs[i][1] = k /\ \A j \in (i + 1)..Len(pairs) : pairs[j][1] # k][2]]

\* The values of a row loop's locals for one match.
RowLocals ==
    [description |-> "Tea", hsn |-> "996331", qty |-> 2, unit |-> "NOS", per |-> "Nos",
     unit_price |-> 10000, rate |-> 10000, taxable_total |-> 20000, taxable_value |-> 20000,
     igst_pct |-> 0, igst_amt |-> 0, cgst_pct |-> 9, cgst_amt |-> 1800,
     sgst_pct |-> 9, sgst_amt |-> 1800, amount |-> 23600, total_amount |-> 23600]

\* rows.append({...}) of _extract_mogli.
MogliRecord(hd, loc) ==
    DictOf(<< <<"Invoice Type", "TAX INVOICE">>,
              <<"Vendor Name (Billed From)", hd.vendor_name>>,
              <<"Vendor GSTN (Billed From GSTN)", hd.vendor_gstn>>,
              <<"Buyer Name (Billed To)", hd.buyer_name>>,
              <<"Buyer GSTIN (Billed To GSTN)", hd.buyer_gstn>>,
              <<"Place of Suply", hd.place_of_supply>>,
              <<"Invoice No", hd.invoice_no>>,
              <<"Invoice Date", hd.invoice_date>>,
              <<"Description of Goods", loc.description>>,
              <<"HSN", loc.hsn>>,
              <<"Qty", loc.qty>>,
              <<"Unit", loc.unit>>,
              <<"Unit Price", loc.unit_price>>,
              <<"Taxable Total", loc.taxable_total>>,
              <<"IGST    %", loc.igst_pct>>,
              <<"IGST Amount", loc.igst_amt>>,
              <<"CGST %", loc.cgst_pct>>,
              <<"CGST Amount", loc.cgst_amt>>,
              <<"SGST %", loc.sgst_pct>>,
              <<"SGST Amount", loc.sgst_amt>>,
              <<"Amount", loc.amount>> >>)

\* rows.append({...}) of _extract_sdi.
SdiRecord(hd, loc) ==
    DictOf(<< <<"Invoice Type", "TAX INVOICE">>,
              <<"Vendor Name (Billed From)", hd.vendor_name>>,
              <<"Vendor GSTN (Billed From GSTN)", hd.vendor_gstn>>,
              <<"Buyer Name (Billed To)", hd.buyer_name>>,
              <<"Buyer GSTIN (Billed To GSTN)", hd.buyer_gstn>>,
              <<"Invoice No", hd.invoice_no>>,
              <<"Invoice Date", hd.invoice_date>>,
              <<"Description of Goods", loc.description>>,
              <<"HSN/SAC", loc.hsn>>,
              <<"Quantity", loc.qty>>,
              <<"Rate", loc.rate>>,
              <<"Per", loc.per>>,
              <<"Taxable Total", loc.taxable_total>>,
              <<"IGST    %", loc.igst_pct>>,
              <<"IGST Amount", loc.igst_amt>>,
              <<"CGST %", loc.cgst_pct>>,
              <<"CGST Amount", loc.cgst_amt>>,
              <<"SGST %", loc.sgst_pct>>,
              <<"SGST Amount", loc.sgst_amt>>,
              <<"Amount", loc.total_amount>> >>)

\* rows.append({...}) of _extract_jll.
\* current_site and service_type stand at their summary values: no site and
\* no category phrase in the description.
JllRecord(hd, loc) ==
    DictOf(<< <<"Invoice Type", "TAX INVOICE">>,
              <<"Vendor Name (Billed From)", hd.vendor_name>>,
              <<"Vendor GSTN (Billed From GSTN)", hd.vendor_gstn>>,
              <<"Buyer Name (Billed To)", hd.buyer_name>>,
              <<"Buyer GSTIN (Billed To GSTN)", hd.buyer_gstn>>,
              <<"Place of Suply", hd.place_of_supply>>,
              <<"Invoice No", hd.invoice_no>>,
              <<"Invoice Date", hd.invoice_date>>,
              <<"Description", loc.description>>,
              <<"HSN", loc.hsn>>,
              <<"Qty", 0>>,
              <<"Taxable Value", loc.taxable_value>>,
              <<"IGST    %", loc.igst_pct>>,
              <<"IGST Amount", loc.igst_amt>>,
              <<"CGST %", loc.cgst_pct>>,
              <<"CGST Amount", loc.cgst_amt>>,
              <<"SGST %", loc.sgst_pct>>,
              <<"SGST Amount", loc.sgst_amt>>,
              <<"Amount", loc.total_amount>>,
              <<"Site Name", hd.site_name>>,
              <<"Service Type", hd.service_type_from_summary>> >>)

-----------------------------------------------------------------------------
(* SpecRecord: each extractor's record for every outcome of its header     *)
(* searches.                                                               *)

HeaderNames ==
    {"vendor_name", "vendor_gstn", "buyer_name", "buyer_gstn", "place_of_supply",
     "invoice_no", "invoice_date", "site_name", "service_type_from_summary"}

HeaderOutcomes == [HeaderNames -> {None, "x"}]

InitRecord ==
    /\ InitWith(0, "idle", <<>>, 0)
    /\ input \in HeaderOutcomes
    /\ output = <<>>
    /\ call = "none"

EmitMogli ==
    /\ call = "none"
    /\ call' = "_extract_mogli"
    /\ output' = MogliRecord(Header(input), RowLocals)
    /\ UNCHANGED <<input, pipeVars>>

EmitSdi ==
    /\ call = "none"
    /\ call' = "_extract_sdi"
    /\ output' = SdiRecord(Header(input), RowLocals)
    /\ UNCHANGED <<input, pipeVars>>

EmitJll ==
    /\ call = "none"
    /\ call' = "_extract_jll"
    /\ output' = JllRecord(Header(input), RowLocals)
    /\ UNCHANGED <<input, pipeVars>>

NextRecord == EmitMogli \/ EmitSdi \/ EmitJll

SpecRecord == InitRecord /\ [][NextRecord]_vars

-----------------------------------------------------------------------------
(* SpecTax: the record each extractor builds for one matched row, over     *)
(* rows whose printed tax amounts and total agree or disagree with their   *)
(* taxable value and percentages.                                          *)

\* A row as printed: its taxable value is rate times quantity, and its tax
\* amount and total are the computed figures less offC and offA.
PrintedItem(q, r, cp, sp, offC, offA) ==
    LET t == r * FloatValue(q)
        ca == (t * cp) \div 100 - offC
        sa == (t * sp) \div 100
    IN  [qty |-> q, rate |-> r, taxable |-> t,
         cgstPct |-> cp, cgstAmt |-> ca, sgstPct |-> sp, sgstAmt |-> sa,
         amount |-> t + ca + sa - offA]

TaxItems ==
    {PrintedItem(q, r, cp, sp, offC, offA) :
        q \in {<<"1">>, <<"2">>}, r \in {100000, 10000},
        cp \in {9, 14}, sp \in {9, 6}, offC \in {0, 500}, offA \in {0, 2000}}

TaxInputs == {[item |-> it, summary |-> s] : it \in TaxItems, s \in SdiSummaries}

InitTax ==
    /\ InitWith(0, "idle", <<>>, 0)
    /\ input \in TaxInputs
    /\ output = <<>>
    /\ call = "none"

\* _extract_mogli on a page with the one row.
TaxMogli ==
    /\ call = "none"
    /\ call' = "_extract_mogli"
    /\ output' = <<BuildRow("Mogli Labs", input.item, 1, 1)>>
    /\ UNCHANGED <<input, pipeVars>>

\* _extract_sdi on a page with the one row and the summary: the row loop,
\* then the reconciliation pass.
TaxSdi ==
    /\ call = "none"
    /\ call' = "_extract_sdi"
    /\ output' = ReconcileRows(<<BuildRow("SDI", input.item, 1, 1)>>, input.summary)
    /\ UNCHANGED <<input, pipeVars>>

\* _extract_jll on a page with the one row.
TaxJll ==
    /\ call = "none"
    /\ call' = "_extract_jll"
    /\ output' = <<BuildRow("JLL", input.item, 1, 1)>>
    /\ UNCHANGED <<input, pipeVars>>

NextTax == TaxMogli \/ TaxSdi \/ TaxJll

SpecTax == InitTax /\ [][NextTax]_vars

-----------------------------------------------------------------------------
(* The row loop of _extract_jll: site name and service type of each row.   *)
(* A block is the text of group 1 of hsn_pattern for one row; the blocks   *)
(* drawn hold none of the noise lines the loop deletes (page footers,      *)
(* signature lines, tax lines of the previous row).                        *)

Max(S) == CHOOSE x \in S : \A y \in S : x >= y

\* str.strip()
Strip(t) ==
    LET keep == {k \in 1..Len(t) : ~IsSpace(t[k])}
    IN  IF keep = {} THEN <<>> ELSE SubSeq(t, Min(keep), Max(keep))

RECURSIVE SplitLines(_)
\* str.split("\n")
SplitLines(t) ==
    LET nls == {k \in 1..Len(t) : t[k] = NL}
    IN  IF nls = {} THEN <<t>>
        ELSE <<SubSeq(t, 1, Min(nls) - 1)>> \o SplitLines(SubSeq(t, Min(nls) + 1, Len(t)))

RECURSIVE JoinLines(_)
\* " ".join(lines)
JoinLines(lines) ==
    IF lines = <<>> THEN <<>>
    ELSE IF Len(lines) = 1 THEN lines[1]
    ELSE lines[1] \o <<" ">> \o JoinLines(Tail(lines))

\* description: the stripped, non-empty lines of the block joined by spaces.
Description(block) ==
    LET lines == SplitLines(Strip(block))
        stripped == [k \in 1..Len(lines) |-> Strip(lines[k])]
    IN  JoinLines(SelectSeq(stripped, LAMBDA l : l # <<>>))

\* The positions of "(" that (SE-IN\s+[^\n]+?\( can end at when \s+ stops
\* before w: at least one character that is no newline, then "(", with a
\* ")" somewhere after it for [^)]*\).
SiteOpens(block, w) ==
    {q \in (w + 1)..Len(block) :
        /\ block[q] = "("
        /\ \A k \in w..(q - 1) : block[k] # NL
        /\ \E r \in (q + 1)..Len(block) : block[r] = ")"}

\* The positions \s+ after an SE-IN at i can stop before with a match.
SiteGaps(block, i) ==
    {w \in Spaces1(block, Lit(block, {i}, <<"s","e","-","i","n">>)) : SiteOpens(block, w) # {}}

\* site_match.group(1).strip(), or <<>> without a match: the leftmost SE-IN,
\* \s+ greedy, [^\n]+? lazy, [^)]* up to the first ")".
SiteIn(block) ==
    LET hits == {i \in 1..Len(block) : SiteGaps(block, i) # {}}
    IN  IF hits = {} THEN <<>>
        ELSE LET i == Min(hits)
                 q == Min(SiteOpens(block, Max(SiteGaps(block, i))))
                 r == Min({k \in (q + 1)..Len(block) : block[k] = ")"})
             IN  Strip(SubSeq(block, i, r))

\* current_site after a row: the site of its block when it has one.
NextSiteKeepsSummary(current, found) == current

NextSite(current, found) == IF found # <<>> THEN found ELSE current

\* M\s*&\s*[ER]
SearchMAndE(text) ==
    LET m == Lit(text, 1..(Len(text) + 1), <<"m">>)
        amp == Lit(text, Spaces0(text, m), <<"&">>)
        last == Spaces0(text, amp)
    IN  Lit(text, last, <<"e">>) \cup Lit(text, last, <<"r">>) # {}

\* The re.search of one branch of the if/elif chain on the description.
ServiceMatches(s, d) ==
    CASE s = "Pantry Services" ->
            \/ SearchWords(d, << <<"f","o","o","d">>, <<"s","e","r","v","i","c","e">> >>)
            \/ SearchWords(d, << <<"p","a","n","t","r","y">> >>)
            \/ SearchWords(d, << <<"c","a","t","e","r","i","n","g">> >>)
            \/ SearchWords(d, << <<"o","t","h","e","r">>, <<"c","o","n","t","r","a","c","t">>, <<"f","o","o","d">> >>)
      [] s = "M&E Services" ->
            \/ SearchMAndE(d)
            \/ SearchWords(d, << <<"m","a","i","n","t","e","n","a","n","c","e">> >>)
            \/ SearchWords(d, << <<"m","e","c","h","a","n","i","c","a","l">> >>)
            \/ SearchWords(d, << <<"e","l","e","c","t","r","i","c","a","l">> >>)
      [] s = "Housekeeping Services" ->
            \/ SearchWords(d, << <<"h","o","u","s","e","k","e","e","p","i","n","g">> >>)
            \/ SearchWords(d, << <<"c","l","e","a","n","i","n","g">> >>)
      [] s = "Soft Services" ->
            SearchWords(d, << <<"s","o","f","t">>, <<"s","e","r","v","i","c","e">> >>)

\* The order of the if/elif chain.
ServiceOrderReversed ==
    <<"Soft Services", "Housekeeping Services", "M&E Services", "Pantry Services">>

ServiceOrder ==
    <<"Pantry Services", "M&E Services", "Housekeeping Services", "Soft Services">>

RECURSIVE ServiceFrom(_, _)
\* service_type after the chain: "" when no branch matched.
ServiceFrom(order, d) ==
    IF order = <<>> THEN ""
    ELSE IF ServiceMatches(Head(order), d) THEN Head(order)
    ELSE ServiceFrom(Tail(order), d)

\* `if not service_type: service_type = current_service`
ServiceType(d, current_service) ==
    IF ServiceFrom(ServiceOrder, d) = "" THEN current_service
    ELSE ServiceFrom(ServiceOrder, d)

RECURSIVE JllRowsFrom(_, _, _, _)
\* The loop over hsn_pattern.finditer: one row per block, current_site
\* carried from row to row.
JllRowsFrom(blocks, current_site, current_service, rs) ==
    IF blocks = <<>> THEN rs
    ELSE LET site == NextSite(current_site, SiteIn(Strip(Head(blocks))))
             d == Description(Head(blocks))
         IN  JllRowsFrom(Tail(blocks), site, current_service,
                         Append(rs, [description |-> d, site |-> site,
                                     service |-> ServiceType(d, current_service)]))

-----------------------------------------------------------------------------
(* SpecJll: _extract_jll's row loop on the blocks of one document, with    *)
(* the site name and service type its summary table gave.                  *)

MaxRows == 2

JllBlocks ==
    { <<"F","o","o","d"," ","s","e","r","v","i","c","e">>,
      <<"c","l","e","a","n","i","n","g"," ","a","n","d"," ","c","a","t","e","r","i","n","g">>,
      <<"M"," ","&"," ","E"," ","u","p","k","e","e","p">>,
      <<"H","o","u","s","e","k","e","e","p","i","n","g",","," ","e","l","e","c","t","r","i","c","a","l">>,
      <<"s","o","f","t"," ","s","e","r","v","i","c","e"," ","c","l","e","a","n","i","n","g">>,
      <<"S","o","f","t"," ","S","e","r","v","i","c","e",NL,"d","e","s","k">>,
      <<"S","e","c","u","r","i","t","y"," ","g","u","a","r","d">>,
      <<"S","E","-","I","N"," ","P","u","n","e"," ","(","P","1",")",NL,"S","e","c","u","r","i","t","y">>,
      <<"s","e","-","i","n"," ","G","o","a"," ","(","G","2",")"," ","p","a","n","t","r","y">>,
      <<"S","E","-","I","N"," ","G","o","a",NL,"(","x",")"," ","m","e","c","h","a","n","i","c","a","l">>,
      <<"O","t","h","e","r"," ","c","o","n","t","r","a","c","t"," ","f","o","o","d"," ","m","&","r">> }

SummarySite == <<"S","E","-","I","N"," ","P","u","n","e"," ","(","P","1",")">>

\* What the summary line gave: nothing, or a site name and a service type.
JllSummaries ==
    {[site_name |-> <<>>, service_type_from_summary |-> ""],
     [site_name |-> SummarySite, service_type_from_summary |-> "Hard Services"],
     [site_name |-> SummarySite, service_type_from_summary |-> "Soft Services"]}

JllInputs ==
    {[site_name |-> s.site_name,
      service_type_from_summary |-> s.service_type_from_summary, blocks |-> bs] :
        s \in JllSummaries, bs \in SeqsUpTo(JllBlocks, MaxRows)}

InitJll ==
    /\ InitWith(0, "idle", <<>>, 0)
    /\ input \in JllInputs
    /\ output = <<>>
    /\ call = "none"

ExtractJllRows ==
    /\ call = "none"
    /\ call' = "_extract_jll"
    /\ output' = JllRowsFrom(input.blocks, input.site_name,
                             input.service_type_from_summary, <<>>)
    /\ UNCHANGED <<input, pipeVars>>

NextJll == ExtractJllRows

SpecJll == InitJll /\ [][NextJll]_vars

-----------------------------------------------------------------------------
(* _clean *)

\* text.replace("\xa0", " ")
ReplaceNbsp(t) == [k \in 1..Len(t) |-> IF t[k] = NBSP THEN " " ELSE t[k]]

\* The class [ \t]
BlankSpaceOnly(c) == c = " "

Blank(c) == c \in {" ", TAB}

RECURSIVE Collapse(_)
\* re.sub(r"[ \t]+", " ", text): every maximal run becomes one space.
Collapse(t) ==
    IF t = <<>> THEN <<>>
    ELSE IF ~Blank(t[1]) THEN <<t[1]>> \o Collapse(Tail(t))
    ELSE LET rest == {k \in 1..Len(t) : ~Blank(t[k])}
         IN  IF rest = {} THEN <<" ">>
             ELSE <<" ">> \o Collapse(SubSeq(t, Min(rest), Len(t)))

_clean(t) == Strip(Collapse(ReplaceNbsp(t)))

-----------------------------------------------------------------------------
(* SpecClean: _clean applied to a text, and again to its result *)

MaxLen == 4

CleanTexts == SeqsUpTo({"a", " ", TAB, NBSP, NL}, MaxLen)

InitClean ==
    /\ InitWith(0, "idle", <<>>, 0)
    /\ input \in CleanTexts
    /\ output = <<>>
    /\ call = "none"

CleanOnce ==
    /\ call = "none"
    /\ call' = "_clean"
    /\ output' = _clean(input)
    /\ UNCHANGED <<input, pipeVars>>

\* The result is passed to _clean again.
CleanAgain ==
    /\ call = "_clean"
    /\ call' = "_clean again"
    /\ input' = output
    /\ output' = _clean(output)
    /\ UNCHANGED pipeVars

NextClean == CleanOnce \/ CleanAgain

SpecClean == InitClean /\ [][NextClean]_vars

-----------------------------------------------------------------------------
(* Properties *)

\* A company signature stated on the text itself: the phrase's words, in any
\* letter case, separated by runs of whitespace.
SameLetter(ch, l) ==
    ch = l \/ \E n \in 1..26 : LowerLetters[n] = l /\ UpperLetters[n] = ch

WordAt(text, i, w) ==
    /\ i + Len(w) - 1 <= Len(text)
    /\ \A k \in 1..Len(w) : SameLetter(text[i + k - 1], w[k])

RECURSIVE PhraseAt(_, _, _)
PhraseAt(text, i, words) ==
    /\ WordAt(text, i, Head(words))
    /\ \/ Len(words) = 1
       \/ \E j \in (i + Len(Head(words)) + 1)..Len(text) :
            /\ \A k \in (i + Len(Head(words)))..(j - 1) : text[k] \in {" ", NL, TAB, NBSP}
            /\ PhraseAt(text, j, Tail(words))

HasPhrase(text, words) == \E i \in 1..Len(text) : PhraseAt(text, i, words)

HasSignature(c, text) ==
    CASE c = "Mogli Labs" ->
            HasPhrase(text, << <<"m","o","g","l","i">>, <<"l","a","b","s">> >>)
      [] c = "SDI" ->
            HasPhrase(text, << <<"s","d","i">>, <<"b","u","s","i","n","e","s","s">>,
                               <<"s","e","r","v","i","c","e","s">> >>)
      [] c = "JLL" ->
            \/ HasPhrase(text, << <<"j","o","n","e","s">>, <<"l","a","n","g">>,
                                  <<"l","a","s","a","l","l","e">> >>)
            \/ HasPhrase(text, << <<"j","l","l">>, <<"i","n","v","o","i","c","e">> >>)

RECURSIVE ConcatFor(_, _)
\* The rows returned for the documents classified as c, in processing order.
ConcatFor(c, rets) ==
    IF rets = <<>> THEN <<>>
    ELSE ConcatFor(c, SubSeq(rets, 1, Len(rets) - 1))
            \o (IF rets[Len(rets)].company = c THEN rets[Len(rets)].rows ELSE <<>>)

\* C1: each company's aggregated collection is the concatenation, in
\* processing order, of the rows returned for the documents of that company,
\* so that the records of an earlier document precede those of a later one
\* and each document's records keep their order of discovery.
C1_AggregationOrder ==
    \A c \in CompanySet :
        /\ all_data[c] = ConcatFor(c, returned)
        /\ \A i, j \in 1..Len(all_data[c]) :
              i < j =>
                \/ all_data[c][i].doc < all_data[c][j].doc
                \/ /\ all_data[c][i].doc = all_data[c][j].doc
                   /\ all_data[c][i].seq < all_data[c][j].seq

C1_Witness ==
    \E c \in CompanySet :
        /\ Len(all_data[c]) >= 3
        /\ all_data[c][1].doc = 1
        /\ all_data[c][Len(all_data[c])].doc = 2
        /\ \E i \in 1..(Len(all_data[c]) - 1) : all_data[c][i].doc = all_data[c][i + 1].doc

\* C2: whatever the documents turn out to be (unreadable, unrecognized,
\* faulting in the extractor, without line items), the run reaches the write
\* of the aggregated output with every document of the batch processed.
C2_BatchReachesWrite == <>(pc = "written" /\ Len(returned) = numDocs)

C2_Witness ==
    /\ pc = "written"
    /\ Len(returned) = 2
    /\ returned[1].rows = <<>>
    /\ returned[2].rows # <<>>

\* The current document was read and holds no company signature.
Unrecognized ==
    /\ idx >= 1
    /\ readable
    /\ \A c \in CompanySet : ~HasSignature(c, full_text)

\* C3: for a document without a company signature no extractor is run, the
\* pair returned is (None, []), and every company's aggregated collection is
\* what it was when the document was taken.
C3_UnrecognizedShortCircuits ==
    Unrecognized =>
        /\ idx \notin ran
        /\ pc \notin {"extract", "reconcile"}
        /\ all_data = snap
        /\ pc = "aggregate" => result = NoResult
        /\ pc \in {"loop", "written"} => returned[idx] = NoResult

C3_Witness ==
    /\ Unrecognized
    /\ pc = "loop"
    /\ idx = 2
    /\ \E c \in CompanySet : all_data[c] # <<>>

\* C4: when an exception is raised inside a document's extractor, after any
\* number of rows were built, the document contributes no record: the pair
\* returned holds no rows and the aggregated collections are unchanged.
C4_FaultContributesNothing ==
    faulted =>
        /\ pc \in {"aggregate", "loop", "written"}
        /\ all_data = snap
        /\ pc = "aggregate" => result = [company |-> company, rows |-> <<>>]
        /\ pc \in {"loop", "written"} => returned[idx] = [company |-> company, rows |-> <<>>]

C4_Witness ==
    /\ faulted
    /\ built > 0
    /\ pc = "loop"
    /\ idx = 2
    /\ \E c \in CompanySet : all_data[c] # <<>>

IsPrefix(a, b) == Len(a) <= Len(b) /\ SubSeq(b, 1, Len(a)) = a

\* C9: reconciliation runs when the page loop of the document is over and
\* none of the document's rows is aggregated yet; it rewrites rows of that
\* document only, leaves the aggregated collections as they are, and no step
\* ever changes a record once it is aggregated.
C9_ReconcileOwnRowsOnly ==
    [][ /\ pc = "reconcile" =>
              /\ page > numPages
              /\ \A k \in 1..Len(rows) : rows[k].doc = idx
              /\ \A c \in CompanySet : \A k \in 1..Len(all_data[c]) : all_data[c][k].doc < idx
              /\ all_data' = all_data
        /\ \A c \in CompanySet : IsPrefix(all_data[c], all_data'[c])
      ]_vars

C9_Witness ==
    /\ pc = "aggregate"
    /\ company = "SDI"
    /\ ~faulted
    /\ summary.found
    /\ idx = 2
    /\ Len(rows) >= 2
    /\ all_data["SDI"] # <<>>

TaxFieldsFollow(row, cgst, sgst) ==
    /\ row.cgstPct = cgst
    /\ row.sgstPct = sgst
    /\ row.cgstAmt * 100 = row.taxable * cgst
    /\ row.sgstAmt * 100 = row.taxable * sgst
    /\ row.amount = row.taxable + row.igstAmt + row.cgstAmt + row.sgstAmt

SdiReturned == pc \in {"aggregate", "rerun"} /\ company = "SDI" /\ ~faulted

\* C6: when the SDI tax summary is found, every row the extractor returns
\* carries the summary's two percentages, tax amounts equal to the taxable
\* total times each percentage, and their sum with the taxable total as Amount.
C6_SummaryRewritesEveryRow ==
    (SdiReturned /\ summary.found) =>
        \A k \in 1..Len(result.rows) :
            TaxFieldsFollow(result.rows[k], summary.cgst, summary.sgst)

C6_Witness ==
    /\ SdiReturned
    /\ summary.found
    /\ summary.cgst # DefaultPct
    /\ summary.sgst # summary.cgst
    /\ Len(result.rows) > MaxItems
    /\ \E i, j \in 1..Len(result.rows) : result.rows[i].taxable # result.rows[j].taxable

\* C7: when the SDI tax summary is absent, the reconciliation step changes
\* no field of any record: every row keeps the default 9 % rates and the
\* amounts computed from them.
C7_NoSummaryKeepsDefaults ==
    [][ (pc = "reconcile" /\ pc' = "aggregate" /\ ~summary'.found) =>
            /\ rows' = rows
            /\ result'.rows = rows
            /\ \A k \in 1..Len(rows') : TaxFieldsFollow(rows'[k], 9, 9)
      ]_vars

C7_Witness ==
    /\ SdiReturned
    /\ ~summary.found
    /\ Len(result.rows) >= 2

\* C8: the reconciliation pass applied to rows it has already reconciled
\* returns them unchanged.
C8_ReconcileIdempotent == pc = "rerun" => rerun = result.rows

C8_Witness ==
    /\ pc = "rerun"
    /\ summary.found
    /\ summary.cgst # DefaultPct
    /\ Len(rerun) >= 2

\* C5: detect_company returns the first of Mogli Labs, SDI, JLL whose
\* signature the text holds, and None exactly when it holds none.
C5_FirstSignatureWins ==
    pc # "detect" =>
        company = (IF HasSignature("Mogli Labs", full_text) THEN "Mogli Labs"
                   ELSE IF HasSignature("SDI", full_text) THEN "SDI"
                   ELSE IF HasSignature("JLL", full_text) THEN "JLL"
                   ELSE None)

C5_Witness ==
    /\ pc # "detect"
    /\ company = "Mogli Labs"
    /\ HasSignature("JLL", full_text)

\* The 15-character shape: digits at 1-2 and 8-11, capital letters at 3-7,
\* 12 and 14, a digit or capital letter at 13 and 15.
IsGstnShape(tok) ==
    /\ Len(tok) = 15
    /\ \A k \in {1, 2, 8, 9, 10, 11} : IsDigit(tok[k])
    /\ \A k \in {3, 4, 5, 6, 7, 12, 14} : IsUpper(tok[k])
    /\ \A k \in {13, 15} : IsDigit(tok[k]) \/ IsUpper(tok[k])

\* The run of word characters that starts at p.
WordRun(text, p) ==
    LET stops == {q \in p..Len(text) : ~IsWordChar(text[q])}
    IN  SubSeq(text, p, IF stops = {} THEN Len(text) ELSE Min(stops) - 1)

\* The tokens of the text that follow one of the labels.
LabelledTokens(text) ==
    {WordRun(text, p) :
        p \in {q \in UNION {AfterLabel(text, i, DefaultLabels[l]) :
                              i \in 1..Len(text), l \in 1..Len(DefaultLabels)} :
                 q <= Len(text) /\ IsWordChar(text[q])}}

\* C10: every registration number produced is empty or has the 15-character
\* shape, and the label-based extraction returns only a whole token that
\* follows a label and has that shape.
C10_RegistrationNumberShape ==
    /\ call \in {"_extract_gstn", "mogli_buyer"} => (output = <<>> \/ IsGstnShape(output))
    /\ call = "_find_all_unique_gstns" => \A k \in 1..Len(output) : IsGstnShape(output[k])
    /\ call = "_extract_gstn" =>
          (output = <<>> \/ \E tok \in LabelledTokens(input) : tok = output /\ IsGstnShape(tok))


SeqSet(s) == {s[i] : i \in 1..Len(s)}

\* The column list of the extractor that was called.
ColumnsOf(c) ==
    CASE c = "_extract_mogli" -> MOGLI_COLUMNS
      [] c = "_extract_sdi" -> SDI_COLUMNS
      [] c = "_extract_jll" -> JLL_COLUMNS

\* The column a header field is written under.
HeaderColumn ==
    [vendor_name |-> "Vendor Name (Billed From)",
     vendor_gstn |-> "Vendor GSTN (Billed From GSTN)",
     buyer_name |-> "Buyer Name (Billed To)",
     buyer_gstn |-> "Buyer GSTIN (Billed To GSTN)",
     place_of_supply |-> "Place of Suply",
     invoice_no |-> "Invoice No",
     invoice_date |-> "Invoice Date",
     site_name |-> "Site Name",
     service_type_from_summary |-> "Service Type"]

\* C11: a record has exactly the keys of its company's column list, and a
\* header field none of whose patterns matched is there with the value "".
C11_EveryColumnPresent ==
    call \in {"_extract_mogli", "_extract_sdi", "_extract_jll"} =>
        /\ DOMAIN output = SeqSet(ColumnsOf(call))
        /\ \A f \in HeaderNames :
              (HeaderColumn[f] \in SeqSet(ColumnsOf(call)) /\ input[f] = None)
                  => output[HeaderColumn[f]] = ""

C11_Witness ==
    /\ call = "_extract_jll"
    /\ input["site_name"] = None
    /\ input["vendor_gstn"] = None
    /\ input["invoice_no"] # None
    /\ output["Invoice No"] = "x"

\* C12: a malformed numeric field never raises: when an extractor has
\* returned for a recognized document, no statement of its row loop raised
\* and every row it matched is in the rows returned.
C12_MalformedNumberNeverRaises ==
    (pc = "aggregate" /\ company \in CompanySet) =>
        (~faulted /\ Len(result.rows) >= built)

\* Each tax amount is the taxable value times its percentage and the total is
\* the taxable value plus the three tax amounts.
TaxComputed(row) ==
    /\ 100 * row.igstAmt = row.taxable * row.igstPct
    /\ 100 * row.cgstAmt = row.taxable * row.cgstPct
    /\ 100 * row.sgstAmt = row.taxable * row.sgstPct
    /\ row.amount = row.taxable + row.igstAmt + row.cgstAmt + row.sgstAmt

\* One record with taxable value 1000 and 9 per cent twice has tax amounts 90
\* and 90 and total 1180 (in hundredths).
TaxExample(rs) ==
    /\ Len(rs) = 1
    /\ (rs[1].taxable = 100000 /\ rs[1].cgstPct = 9 /\ rs[1].sgstPct = 9) =>
          (rs[1].cgstAmt = 9000 /\ rs[1].sgstAmt = 9000 /\ rs[1].amount = 118000)

\* C13 as stated: the tax arithmetic holds for every record of each of the
\* three extractors.
C13_TaxArithmeticEveryExtractor ==
    call \in {"_extract_mogli", "_extract_sdi", "_extract_jll"} =>
        (TaxExample(output) /\ \A k \in 1..Len(output) : TaxComputed(output[k]))

\* C13: the tax arithmetic holds for every record of the SDI and JLL
\* extractors, which compute the amounts; a Mogli record carries the taxable
\* value, tax amounts and total printed in its row.
C13_TaxArithmeticWhereComputed ==
    /\ call \in {"_extract_sdi", "_extract_jll"} =>
          (TaxExample(output) /\ \A k \in 1..Len(output) : TaxComputed(output[k]))
    /\ call = "_extract_mogli" =>
          /\ Len(output) = 1
          /\ output[1].taxable = input.item.taxable
          /\ output[1].cgstAmt = input.item.cgstAmt
          /\ output[1].sgstAmt = input.item.sgstAmt
          /\ output[1].amount = input.item.amount

C13_Witness ==
    /\ call = "_extract_sdi"
    /\ output[1].taxable = 100000
    /\ output[1].cgstPct = 9
    /\ output[1].sgstPct = 9
    /\ output[1].cgstAmt = 9000
    /\ output[1].amount = 118000

\* M, optional whitespace, &, optional whitespace, E or R, in any letter case.
HasMAndE(d) ==
    \E i \in 1..Len(d), j \in 1..Len(d), k \in 1..Len(d) :
        /\ i < j /\ j < k
        /\ SameLetter(d[i], "m") /\ d[j] = "&"
        /\ SameLetter(d[k], "e") \/ SameLetter(d[k], "r")
        /\ \A n \in ((i + 1)..(j - 1)) \cup ((j + 1)..(k - 1)) : d[n] \in {" ", NL, TAB, NBSP}

\* The category phrase groups, stated on the description itself.
HasCategory(s, d) ==
    CASE s = "Pantry Services" ->
            \/ HasPhrase(d, << <<"f","o","o","d">>, <<"s","e","r","v","i","c","e">> >>)
            \/ HasPhrase(d, << <<"p","a","n","t","r","y">> >>)
            \/ HasPhrase(d, << <<"c","a","t","e","r","i","n","g">> >>)
            \/ HasPhrase(d, << <<"o","t","h","e","r">>, <<"c","o","n","t","r","a","c","t">>, <<"f","o","o","d">> >>)
      [] s = "M&E Services" ->
            \/ HasMAndE(d)
            \/ HasPhrase(d, << <<"m","a","i","n","t","e","n","a","n","c","e">> >>)
            \/ HasPhrase(d, << <<"m","e","c","h","a","n","i","c","a","l">> >>)
            \/ HasPhrase(d, << <<"e","l","e","c","t","r","i","c","a","l">> >>)
      [] s = "Housekeeping Services" ->
            \/ HasPhrase(d, << <<"h","o","u","s","e","k","e","e","p","i","n","g">> >>)
            \/ HasPhrase(d, << <<"c","l","e","a","n","i","n","g">> >>)
      [] s = "Soft Services" ->
            HasPhrase(d, << <<"s","o","f","t">>, <<"s","e","r","v","i","c","e">> >>)

\* The first category, in the order Pantry, M&E, Housekeeping, Soft, that the
\* description has a phrase of; "" when it has none.
FirstCategory(d) ==
    IF HasCategory("Pantry Services", d) THEN "Pantry Services"
    ELSE IF HasCategory("M&E Services", d) THEN "M&E Services"
    ELSE IF HasCategory("Housekeeping Services", d) THEN "Housekeeping Services"
    ELSE IF HasCategory("Soft Services", d) THEN "Soft Services"
    ELSE ""

\* C14: a JLL row's Service Type is the first category its own description
\* matches, and the summary's service type exactly when it matches none.
C14_ServiceTypeFromDescriptionFirst ==
    call = "_extract_jll" =>
        /\ Len(output) = Len(input.blocks)
        /\ \A k \in 1..Len(output) :
              output[k].service =
                  IF FirstCategory(output[k].description) # ""
                  THEN FirstCategory(output[k].description)
                  ELSE input.service_type_from_summary

C14_Witness ==
    /\ call = "_extract_jll"
    /\ input.service_type_from_summary = "Soft Services"
    /\ \E k \in 1..Len(output) :
          /\ HasCategory("Housekeeping Services", output[k].description)
          /\ HasCategory("Pantry Services", output[k].description)
          /\ output[k].service = "Pantry Services"
    /\ \E k \in 1..Len(output) :
          /\ FirstCategory(output[k].description) = ""
          /\ output[k].service = "Soft Services"

\* The rows up to k whose block states a site.
SitedUpTo(blocks, k) == {j \in 1..k : SiteIn(Strip(blocks[j])) # <<>>}

\* C15 as stated: every record of a JLL document carries the site name of the
\* summary table.
C15_SummarySiteOnEveryRow ==
    call = "_extract_jll" =>
        \A k \in 1..Len(output) : output[k].site = input.site_name

\* C15: a JLL record carries the site name stated in its own description
\* block or, failing that, in the nearest earlier block of the document that
\* states one; it carries the summary table's site name when no block up to
\* it states one.
C15_SiteFromBlockElseSummary ==
    call = "_extract_jll" =>
        /\ Len(output) = Len(input.blocks)
        /\ \A k \in 1..Len(output) :
              output[k].site =
                  IF SitedUpTo(input.blocks, k) = {} THEN input.site_name
                  ELSE SiteIn(Strip(input.blocks[Max(SitedUpTo(input.blocks, k))]))

C15_Witness ==
    /\ call = "_extract_jll"
    /\ input.site_name = SummarySite
    /\ Len(output) = 2
    /\ SitedUpTo(input.blocks, 2) = {1}
    /\ output[2].site # input.site_name
    /\ output[2].site = output[1].site

\* C16: _clean is idempotent, and its result has no non-breaking space, no
\* two adjacent spaces or tabs, and no whitespace at either end.
C16_CleanIdempotent ==
    /\ call = "_clean again" => output = input
    /\ call \in {"_clean", "_clean again"} =>
          /\ \A k \in 1..Len(output) : output[k] # NBSP
          /\ \A k \in 1..(Len(output) - 1) :
                ~(output[k] \in {" ", TAB} /\ output[k + 1] \in {" ", TAB})
          /\ output # <<>> =>
                (output[1] \notin {" ", TAB, NL, NBSP}
                    /\ output[Len(output)] \notin {" ", TAB, NL, NBSP})

C16_Witness ==
    /\ call = "_clean again"
    /\ Len(input) = 3
    /\ input[2] = " "
    /\ output = input

\* The fields the reconciliation pass may rewrite.
ReconciledFields == {"cgstPct", "sgstPct", "cgstAmt", "sgstAmt", "amount"}

\* C17: the reconciliation pass keeps the number and order of the document's
\* records and every field of each record other than the two tax
\* percentages, the two tax amounts and the total amount.
C17_ReconcileFrame ==
    [][ (pc = "reconcile" /\ pc' = "aggregate") =>
            /\ Len(rows') = Len(rows)
            /\ result'.rows = rows'
            /\ \A k \in 1..Len(rows) :
                  /\ DOMAIN rows'[k] = DOMAIN rows[k]
                  /\ \A f \in DOMAIN rows[k] \ ReconciledFields : rows'[k][f] = rows[k][f]
      ]_vars

C17_Witness ==
    /\ SdiReturned
    /\ pc = "aggregate"
    /\ summary = Summary(14, 0)
    /\ Len(result.rows) >= 2
    /\ result.rows[1].cgstPct = 14
    /\ result.rows[2].seq = 2
    /\ result.rows[1].qty # result.rows[2].qty

\* C18: on the records of every extractor a buyer registration number that is
\* not empty differs from the vendor registration number.
C18_BuyerDiffersFromVendor ==
    call \in {"_extract_mogli", "_extract_sdi", "_extract_jll"} =>
        (output.buyer_gstn # <<>> => output.buyer_gstn # output.vendor_gstn)

=============================================================================
